---- MODULE Spec2Model ----
(***************************************************************************)
(* A model of erpnext_mock_api.py: the mock ERPNext REST server.           *)
(*                                                                         *)
(* State: the two stores of the module (the in-memory fallback mappings    *)
(* and the two tables of the durable backend), the flag saying which one   *)
(* get_db() selects, the scoped storage session, the wall clock, and for   *)
(* the interleaved specification the position of every worker thread.      *)
(* History variables (issued, born) record what the properties speak       *)
(* about; no handler reads them.                                           *)
(***************************************************************************)
EXTENDS Integers, Sequences, FiniteSets, TLC

(***************************************************************************)
(* Bounds of the model.                                                    *)
(***************************************************************************)
MaxIssued == 2       \* names issued, over all doctypes, before creates are cut off
MaxClock == 1        \* the clock runs 0 .. MaxClock
NThreads == 2        \* worker threads of the threaded server

(***************************************************************************)
(* Program constants.                                                      *)
(***************************************************************************)
Doctypes == {"Customer", "Journal Entry", "Purchase Invoice", "Payment Entry"}

VALID_API_KEYS ==
    [k \in {"test_api_key", "demo_key"} |->
        IF k = "test_api_key" THEN "test_api_secret" ELSE "demo_secret"]

PadWidth == 5        \* the 05d of the name templates
PrefixLen == 6       \* auth_header[6:], the length of 'token '
DefaultLimitStart == 0
DefaultPageLength == 20
ToleranceCents == 1  \* the literal 0.01 of the balance check, in cents

None == "<None>"     \* Python's None / JSON null

(***************************************************************************)
(* The clock.  datetime.now() is read as a tick; the year changes between  *)
(* tick 0 and tick 1.                                                      *)
(***************************************************************************)
BaseYear == 2025

YearOf(t) == BaseYear + t

isoformat(t) == ToString(YearOf(t)) \o "-T" \o ToString(t)

strftime(t) == ToString(YearOf(t)) \o "-D" \o ToString(t)

(***************************************************************************)
(* Python helpers.                                                         *)
(***************************************************************************)
\* dict.get(key, default)
Get(d, k, default) == IF k \in DOMAIN d THEN d[k] ELSE default

\* truth value of a string-or-None field, as `not data.get(k)` tests it
TruthyStr(d, k) == k \in DOMAIN d /\ d[k] # None /\ d[k] # ""

\* truth value of a list-valued field
TruthyList(d, k) == k \in DOMAIN d /\ Len(d[k]) > 0

\* dict.update(other) followed by nothing else: other's keys win
DictUpdate(d, other) ==
    [k \in DOMAIN d \cup DOMAIN other |-> IF k \in DOMAIN other THEN other[k] ELSE d[k]]

\* d with d[k] = v
DictSet(d, k, v) == [x \in DOMAIN d \cup {k} |-> IF x = k THEN v ELSE d[x]]

(***************************************************************************)
(* Python floats.  A request writes an amount as a decimal literal with    *)
(* two fraction digits; the model writes the literal in cents.  The JSON   *)
(* parser turns it into the nearest double, and sum(), - and > work on     *)
(* doubles.  A double is written [cents, err]: it is the number            *)
(*     cents / 100  +  err / (100 * 2^ErrBits),                            *)
(* the decimal it is next to and its distance from it.  Doubles have       *)
(* MantissaBits fraction bits, so those of [2^j, 2^(j+1)) are Ulp(j)       *)
(* apart in units of err.                                                  *)
(***************************************************************************)
MantissaBits == 52
ErrBits == 60

RECURSIVE Pow2(_)
Pow2(n) == IF n = 0 THEN 1 ELSE 2 * Pow2(n - 1)

RECURSIVE PowMod(_, _)
\* 2^n modulo m
PowMod(n, m) == IF n = 0 THEN 1 % m ELSE (2 * PowMod(n - 1, m)) % m

RECURSIVE Exponent(_)
\* the j with 2^j <= cents/100 < 2^(j+1), cents >= 1
Exponent(cents) ==
    IF cents >= 200 THEN Exponent(cents \div 2) + 1
    ELSE IF cents < 100 THEN Exponent(2 * cents) - 1
    ELSE 0

Ulp(j) == 100 * Pow2(j + ErrBits - MantissaBits)

\* the one element of a singleton; {F(v) : v \in {e}} computes e once
Only(S) == CHOOSE v \in S : TRUE

\* the binade of the positive number cents/100 plus err
Binade(cents, err) ==
    Only({IF err < 0 /\ (IF e >= 0 THEN cents = 100 * Pow2(e)
                         ELSE cents * Pow2(0 - e) = 100)
          THEN e - 1 ELSE e : e \in {Exponent(cents)}})

\* err moved to the nearest multiple of ulp, ties to the even one; rem2
\* is the number modulo two ulps
Nearest(err, rem2, ulp) ==
    Only({IF 2 * rem < ulp THEN err - rem
          ELSE IF 2 * rem > ulp THEN err + (ulp - rem)
          ELSE IF rem2 >= ulp THEN err + (ulp - rem)
          ELSE err - rem : rem \in {rem2 % ulp}})

\* round-to-nearest of the positive number cents/100 plus err, which is
\* cents * 2^ErrBits + err in units of err
RoundIn(cents, err, j) ==
    Only({[cents |-> cents, err |-> Nearest(err, (high + err) % (2 * ulp), ulp)] :
          ulp \in {Ulp(j)},
          high \in {Pow2(j + ErrBits - MantissaBits)
                      * (((cents % 200) * PowMod(MantissaBits - j, 200)) % 200)}})

RoundPositive(cents, err) ==
    Only({RoundIn(cents, err, j) : j \in {Binade(cents, err)}})

\* the double nearest to cents/100 plus err; a number next to 0 is the
\* difference of two neighbouring doubles, which is a double
RoundValue(cents, err) ==
    IF cents = 0 THEN [cents |-> 0, err |-> err]
    ELSE IF cents > 0 THEN RoundPositive(cents, err)
    ELSE Only({[cents |-> 0 - r.cents, err |-> 0 - r.err] :
               r \in {RoundPositive(0 - cents, 0 - err)}})

Round(cents, err) == Only({RoundValue(c, e) : c \in {cents}, e \in {err}})

\* float("0.04") from the literal 4
float(cents) == Round(cents, 0)

fadd(x, y) == Only({Round(a.cents + b.cents, a.err + b.err) : a \in {x}, b \in {y}})

fsub(x, y) == Only({Round(a.cents - b.cents, a.err - b.err) : a \in {x}, b \in {y}})

\* abs()
Abs(x) ==
    Only({IF a.cents < 0 \/ (a.cents = 0 /\ a.err < 0)
          THEN [cents |-> 0 - a.cents, err |-> 0 - a.err] ELSE a : a \in {x}})

\* x > y
Greater(x, y) ==
    \E a \in {x}, b \in {y} :
        a.cents > b.cents \/ (a.cents = b.cents /\ a.err > b.err)

\* the digits of a decimal with two fraction digits, as repr() ends them
Decimal(cents) ==
    LET whole == ToString(cents \div 100)
        frac  == cents % 100
    IN  IF frac % 10 = 0 THEN whole \o "." \o ToString(frac \div 10)
        ELSE whole \o "." \o ToString(frac \div 10) \o ToString(frac % 10)

\* repr(x): the shortest literal that reads back as x; where that is not
\* the two-digit decimal the further digits are written as the distance
repr(x) ==
    Only({(IF a.cents < 0 THEN "-" ELSE "")
             \o Decimal(IF a.cents < 0 THEN 0 - a.cents ELSE a.cents)
             \o (IF a = float(a.cents) THEN "" ELSE "~" \o ToString(a.err)) :
          a \in {x}})

RECURSIVE SumFrom(_, _, _)
\* sum() adds left to right
SumFrom(acc, lines, field) ==
    IF lines = <<>> THEN acc
    ELSE SumFrom(fadd(acc, float(Get(Head(lines), field, 0))), Tail(lines), field)

\* sum(acc.get(field, 0) for acc in lines)
SumField(lines, field) == SumFrom(float(0), lines, field)

\* seq[start:stop] with Python's treatment of negative and out-of-range indices
PySlice(seq, start, stop) ==
    LET n == Len(seq)
        norm(i) == IF i < 0 THEN (IF i + n < 0 THEN 0 ELSE i + n)
                   ELSE (IF i > n THEN n ELSE i)
        a == norm(start)
        b == norm(stop)
    IN  IF a >= b THEN <<>> ELSE SubSeq(seq, a + 1, b)

\* str.startswith
StartsWith(s, p) == Len(s) >= Len(p) /\ SubSeq(s, 1, Len(p)) = p

RECURSIVE Find(_, _, _)
\* index of the first occurrence at or after i of the character sep in s,
\* 0 when there is none
Find(s, sep, i) ==
    IF i > Len(s) THEN 0
    ELSE IF SubSeq(s, i, i) = sep THEN i
    ELSE Find(s, sep, i + 1)

RECURSIVE Split(_, _)
\* s.split(sep), sep one character
Split(s, sep) ==
    LET i == Find(s, sep, 1)
    IN  IF i = 0 THEN <<s>>
        ELSE <<SubSeq(s, 1, i - 1)>> \o Split(SubSeq(s, i + 1, Len(s)), sep)

RECURSIVE Pad(_, _)
\* zero padding of the decimal digits to at least w characters
Pad(s, w) == IF Len(s) >= w THEN s ELSE Pad("0" \o s, w)

\* json.dumps of a mapping: the set of its key/value pairs
dumps(d) == {<<k, d[k]>> : k \in DOMAIN d}

\* json.loads of such a text
loads(s) == [k \in {p[1] : p \in s} |-> (CHOOSE p \in s : p[1] = k)[2]]

\* the permutations of a finite sequence
RECURSIVE Perms(_)
Perms(seq) ==
    IF Len(seq) <= 1 THEN {seq}
    ELSE UNION {{<<seq[i]>> \o p :
                   p \in Perms([j \in 1..(Len(seq) - 1) |->
                                   IF j < i THEN seq[j] ELSE seq[j + 1]])} :
                i \in 1..Len(seq)}

\* digit value of a one-character string, -1 when it is no digit
DigitVal(c) == IF \E d \in 0..9 : ToString(d) = c
               THEN CHOOSE d \in 0..9 : ToString(d) = c
               ELSE -1

RECURSIVE DigitsVal(_, _)
\* value of a string of decimal digits read after the accumulator acc
DigitsVal(s, acc) ==
    IF s = "" THEN acc
    ELSE DigitsVal(SubSeq(s, 2, Len(s)), 10 * acc + DigitVal(SubSeq(s, 1, 1)))

RECURSIVE AllDigits(_)
AllDigits(s) ==
    s = "" \/ (DigitVal(SubSeq(s, 1, 1)) >= 0 /\ AllDigits(SubSeq(s, 2, Len(s))))

\* int(s): [ok, value]; ok is FALSE where int() raises ValueError
int(s) ==
    LET neg  == StartsWith(s, "-")
        body == IF neg \/ StartsWith(s, "+") THEN SubSeq(s, 2, Len(s)) ELSE s
    IN  IF body = "" \/ ~AllDigits(body) THEN [ok |-> FALSE, value |-> 0]
        ELSE [ok |-> TRUE,
              value |-> IF neg THEN 0 - DigitsVal(body, 0) ELSE DigitsVal(body, 0)]

(***************************************************************************)
(* authenticate(): the Authorization header, '' when absent.               *)
(***************************************************************************)
\* an authenticate that looks the key up and never compares the secret
authenticate_key_only(auth_header) ==
    IF StartsWith(auth_header, "token ")
    THEN LET token == SubSeq(auth_header, PrefixLen + 1, Len(auth_header))
             parts == Split(token, ":")
         IN  Len(parts) = 2 /\ parts[1] \in DOMAIN VALID_API_KEYS
    ELSE FALSE

authenticate(auth_header) ==
    IF StartsWith(auth_header, "token ")
    THEN LET token == SubSeq(auth_header, PrefixLen + 1, Len(auth_header))
             parts == Split(token, ":")
         IN  IF Len(parts) = 2
             THEN parts[1] \in DOMAIN VALID_API_KEYS
                  /\ VALID_API_KEYS[parts[1]] = parts[2]
             ELSE FALSE     \* the unpacking raises ValueError, swallowed
    ELSE FALSE

(***************************************************************************)
(* The stores.  A store value st holds                                     *)
(*   documents_memory : doctype -> ordered mapping, a sequence of          *)
(*                      [name, data] in insertion order (a Python dict)    *)
(*   counters_memory  : doctype -> next sequence number                    *)
(*   db_documents     : the rows of erpnext_documents, in insertion order  *)
(*   db_counters      : the rows of erpnext_counters, doctype -> counter   *)
(* The surrogate id columns are never read by the code and are left out;   *)
(* name is the key of a row.                                               *)
(***************************************************************************)
EmptyDict == <<>>

\* position of the entry called doc_name in an ordered mapping, 0 if absent
IndexOfName(entries, doc_name) ==
    IF \E i \in 1..Len(entries) : entries[i].name = doc_name
    THEN CHOOSE i \in 1..Len(entries) :
            /\ entries[i].name = doc_name
            /\ \A j \in 1..(i - 1) : entries[j].name # doc_name
    ELSE 0

\* position of the first row of that doctype and name, 0 if absent
IndexOfRow(rows, doctype, doc_name) ==
    IF \E i \in 1..Len(rows) : rows[i].doctype = doctype /\ rows[i].name = doc_name
    THEN CHOOSE i \in 1..Len(rows) :
            /\ rows[i].doctype = doctype /\ rows[i].name = doc_name
            /\ \A j \in 1..(i - 1) :
                  ~(rows[j].doctype = doctype /\ rows[j].name = doc_name)
    ELSE 0

\* seq without its i-th element
RemoveAt(seq, i) == [j \in 1..(Len(seq) - 1) |-> IF j < i THEN seq[j] ELSE seq[j + 1]]

\* get_next_counter: [current, st]
get_next_counter(st, doctype, db) ==
    IF db
    THEN LET tbl == IF doctype \in DOMAIN st.db_counters
                    THEN st.db_counters
                    ELSE DictSet(st.db_counters, doctype, 1)
             current == tbl[doctype]
         IN  [current |-> current,
              st |-> [st EXCEPT !.db_counters = DictSet(tbl, doctype, current + 1)]]
    ELSE LET current == Get(st.counters_memory, doctype, 1)
         IN  [current |-> current,
              st |-> [st EXCEPT !.counters_memory = DictSet(@, doctype, current + 1)]]

\* the name template of a doctype
FormatName(doctype, counter, t) ==
    CASE doctype = "Customer" -> "CUST-" \o Pad(ToString(counter), PadWidth)
      [] doctype = "Journal Entry" ->
            "ACC-JV-" \o ToString(YearOf(t)) \o "-" \o Pad(ToString(counter), PadWidth)
      [] doctype = "Purchase Invoice" ->
            "ACC-PINV-" \o ToString(YearOf(t)) \o "-" \o Pad(ToString(counter), PadWidth)
      [] doctype = "Payment Entry" ->
            "ACC-PAY-" \o ToString(YearOf(t)) \o "-" \o Pad(ToString(counter), PadWidth)
      [] OTHER -> doctype \o "-" \o ToString(counter)

\* generate_doc_name: [name, st]
generate_doc_name(st, doctype, db, t) ==
    LET r == get_next_counter(st, doctype, db)
    IN  [name |-> FormatName(doctype, r.current, t), st |-> r.st]

\* save_document: the store after the upsert
save_document(st, doctype, doc_name, doc_data, db, t) ==
    IF db
    THEN LET rows == st.db_documents
             \* filter_by(name=doc_name): the doctype is not part of the lookup
             hit  == {i \in 1..Len(rows) : rows[i].name = doc_name}
         IN  IF hit # {}
             THEN LET i == CHOOSE i \in hit : \A j \in hit : i <= j
                  IN  [st EXCEPT !.db_documents[i] =
                          [@ EXCEPT !.data = dumps(doc_data),
                                    !.modified = t,
                                    !.docstatus = Get(doc_data, "docstatus", 0)]]
             ELSE [st EXCEPT !.db_documents =
                      Append(@, [doctype   |-> doctype,
                                 name      |-> doc_name,
                                 data      |-> dumps(doc_data),
                                 docstatus |-> Get(doc_data, "docstatus", 0),
                                 owner     |-> Get(doc_data, "owner", "Administrator"),
                                 creation  |-> t,
                                 modified  |-> t])]
    ELSE LET entries == Get(st.documents_memory, doctype, <<>>)
             i == IndexOfName(entries, doc_name)
             entry == [name |-> doc_name, data |-> doc_data]
             updated == IF i = 0 THEN Append(entries, entry)
                        ELSE [entries EXCEPT ![i] = entry]
         IN  [st EXCEPT !.documents_memory = DictSet(@, doctype, updated)]

\* a get_document that returns the oldest record of the doctype for any
\* name that is stored
get_document_oldest(st, doctype, doc_name, db) ==
    IF db
    THEN LET rows == SelectSeq(st.db_documents, LAMBDA r : r.doctype = doctype)
         IN  IF IndexOfRow(st.db_documents, doctype, doc_name) = 0 THEN <<>>
             ELSE <<loads(rows[1].data)>>
    ELSE LET entries == Get(st.documents_memory, doctype, <<>>)
         IN  IF IndexOfName(entries, doc_name) = 0 THEN <<>> ELSE <<entries[1].data>>

\* get_document: <<>> for None, <<doc>> for a document
get_document(st, doctype, doc_name, db) ==
    IF db
    THEN LET i == IndexOfRow(st.db_documents, doctype, doc_name)
         IN  IF i = 0 THEN <<>> ELSE <<loads(st.db_documents[i].data)>>
    ELSE LET entries == Get(st.documents_memory, doctype, <<>>)
             i == IndexOfName(entries, doc_name)
         IN  IF i = 0 THEN <<>> ELSE <<entries[i].data>>

\* list_documents: the set of results the call can produce, each
\* [ok |-> TRUE, docs] or [ok |-> FALSE] where the query raises.  The query
\* has no ORDER BY, so the engine may return the rows in any order; a
\* negative OFFSET or LIMIT is an error of the engine.
list_documents(st, doctype, limit_start, limit_page_length, db) ==
    IF db
    THEN IF limit_start < 0 \/ limit_page_length < 0
         THEN {[ok |-> FALSE, docs |-> <<>>]}
         ELSE LET rows == SelectSeq(st.db_documents, LAMBDA r : r.doctype = doctype)
                  page(p) == IF limit_start >= Len(p) THEN <<>>
                             ELSE SubSeq(p, limit_start + 1,
                                         IF limit_start + limit_page_length > Len(p)
                                         THEN Len(p)
                                         ELSE limit_start + limit_page_length)
              IN  {[ok |-> TRUE,
                    docs |-> [i \in 1..Len(page(p)) |-> loads(page(p)[i].data)]] :
                   p \in Perms(rows)}
    ELSE LET entries == Get(st.documents_memory, doctype, <<>>)
             doc_list == [i \in 1..Len(entries) |-> entries[i].data]
         IN  {[ok |-> TRUE,
               docs |-> PySlice(doc_list, limit_start, limit_start + limit_page_length)]}

\* a delete_document that hands the sequence number of the deleted record back
delete_document_rewinds(st, doctype, doc_name, db) ==
    LET back(c) == IF c > 1 THEN c - 1 ELSE c
    IN  IF db
        THEN LET i == IndexOfRow(st.db_documents, doctype, doc_name)
             IN  IF i = 0 THEN [ok |-> FALSE, st |-> st]
                 ELSE [ok |-> TRUE,
                       st |-> [st EXCEPT !.db_documents = RemoveAt(@, i),
                                         !.db_counters[doctype] = back(@)]]
        ELSE IF doctype \in DOMAIN st.documents_memory
                /\ IndexOfName(st.documents_memory[doctype], doc_name) # 0
             THEN [ok |-> TRUE,
                   st |-> [st EXCEPT !.documents_memory[doctype] =
                                         RemoveAt(@, IndexOfName(@, doc_name)),
                                     !.counters_memory[doctype] = back(@)]]
             ELSE [ok |-> FALSE, st |-> st]

\* a delete_document that reports success and removes nothing
delete_document_keeps(st, doctype, doc_name, db) ==
    IF db
    THEN [ok |-> IndexOfRow(st.db_documents, doctype, doc_name) # 0, st |-> st]
    ELSE [ok |-> doctype \in DOMAIN st.documents_memory
                 /\ IndexOfName(st.documents_memory[doctype], doc_name) # 0,
          st |-> st]

\* delete_document: [ok, st]
delete_document(st, doctype, doc_name, db) ==
    IF db
    THEN LET i == IndexOfRow(st.db_documents, doctype, doc_name)
         IN  IF i = 0 THEN [ok |-> FALSE, st |-> st]
             ELSE [ok |-> TRUE, st |-> [st EXCEPT !.db_documents = RemoveAt(@, i)]]
    ELSE IF doctype \in DOMAIN st.documents_memory
            /\ IndexOfName(st.documents_memory[doctype], doc_name) # 0
         THEN [ok |-> TRUE,
               st |-> [st EXCEPT !.documents_memory[doctype] =
                          RemoveAt(@, IndexOfName(@, doc_name))]]
         ELSE [ok |-> FALSE, st |-> st]

(***************************************************************************)
(* Responses and handler outcomes.  A handler is an operator from the      *)
(* store st, the state sess of the scoped session ("closed" or "open"),    *)
(* the request and the clock t to the set of outcomes [st, session, resp]  *)
(* it can produce.  db says whether get_db() returns a session; fault      *)
(* names the storage call of the durable backend that raises in this       *)
(* request ("none" when none does).                                        *)
(***************************************************************************)
Err(status, exc, exc_type) ==
    [status |-> status, body |-> [exc |-> exc, exc_type |-> exc_type]]

Data(status, data) == [status |-> status, body |-> [data |-> data]]

\* a JSON array at the top of a payload; a JSON object is a mapping
JsonArray(seq) == [array |-> seq]

AuthFailed == Err(401, "Authentication failed", "AuthenticationError")

\* internal_error: the 500 handler, for an exception that leaves a view
internal_error == Err(500, "storage error", "InternalError")

\* the 404 of a missing document
DoesNotExist(doctype, name) ==
    Err(404, doctype \o " " \o name \o " not found", "DoesNotExistError")

\* an outcome; names holds the name generate_doc_name returned, if it ran
Out(st, sess, resp, names) ==
    [st |-> st, session |-> sess, resp |-> resp, names |-> names]

\* the session after `finally: if db: db.close()`
Closed(sess, db) == IF db THEN "closed" ELSE sess

ValidationError(exc) == Err(400, exc, "ValidationError")

(***************************************************************************)
(* The four create views.  reject_x is the head of the view (authenticate, *)
(* then the rules of the doctype in order): <<>> when the request passes,  *)
(* <<response>> when it is turned away.  x(data, doc_name, t) is the       *)
(* document the view builds.  finish_create is the tail the four share.    *)
(***************************************************************************)
reject_customer(auth_header, data) ==
    IF ~authenticate(auth_header) THEN <<AuthFailed>>
    ELSE IF ~TruthyStr(data, "customer_name")
    THEN <<ValidationError("Mandatory field customer_name missing")>>
    ELSE <<>>

customer(data, doc_name, t) ==
    [name           |-> doc_name,
     doctype        |-> "Customer",
     customer_name  |-> data.customer_name,
     customer_type  |-> Get(data, "customer_type", "Company"),
     customer_group |-> Get(data, "customer_group", "All Customer Groups"),
     territory      |-> Get(data, "territory", "All Territories"),
     email_id       |-> Get(data, "email_id", None),
     mobile_no      |-> Get(data, "mobile_no", None),
     creation       |-> isoformat(t),
     modified       |-> isoformat(t),
     owner          |-> "Administrator",
     docstatus      |-> 0]

reject_journal_entry(auth_header, data) ==
    IF ~authenticate(auth_header) THEN <<AuthFailed>>
    ELSE IF ~TruthyStr(data, "company")
    THEN <<ValidationError("Mandatory field company missing")>>
    ELSE IF ~TruthyList(data, "accounts") \/ Len(data.accounts) < 2
    THEN <<ValidationError("At least 2 accounts required for a Journal Entry")>>
    ELSE LET total_debit  == SumField(data.accounts, "debit_in_account_currency")
             total_credit == SumField(data.accounts, "credit_in_account_currency")
         IN  IF Greater(Abs(fsub(total_debit, total_credit)), float(ToleranceCents))
             THEN <<ValidationError("Debit (" \o repr(total_debit)
                                    \o ") must equal Credit ("
                                    \o repr(total_credit) \o ")")>>
             ELSE <<>>

journal_entry(data, doc_name, t) ==
    [name             |-> doc_name,
     doctype          |-> "Journal Entry",
     company          |-> data.company,
     posting_date     |-> Get(data, "posting_date", strftime(t)),
     voucher_type     |-> Get(data, "voucher_type", "Journal Entry"),
     accounts         |-> data.accounts,
     user_remark      |-> Get(data, "user_remark", ""),
     reference_number |-> Get(data, "reference_number", ""),
     total_debit      |-> SumField(data.accounts, "debit_in_account_currency"),
     total_credit     |-> SumField(data.accounts, "credit_in_account_currency"),
     difference       |-> 0,
     creation         |-> isoformat(t),
     modified         |-> isoformat(t),
     owner            |-> "Administrator",
     docstatus        |-> 0]

reject_purchase_invoice(auth_header, data) ==
    IF ~authenticate(auth_header) THEN <<AuthFailed>>
    ELSE IF ~TruthyStr(data, "supplier")
    THEN <<ValidationError("Mandatory field supplier missing")>>
    ELSE IF ~TruthyList(data, "items") \/ Len(data.items) = 0
    THEN <<ValidationError("At least 1 item required for Purchase Invoice")>>
    ELSE <<>>

purchase_invoice(data, doc_name, t) ==
    LET total == SumField(data.items, "amount")
    IN  [name               |-> doc_name,
         doctype            |-> "Purchase Invoice",
         supplier           |-> data.supplier,
         company            |-> Get(data, "company", None),
         posting_date       |-> Get(data, "posting_date", strftime(t)),
         items              |-> data.items,
         total              |-> total,
         grand_total        |-> total,
         outstanding_amount |-> total,
         status             |-> "Draft",
         creation           |-> isoformat(t),
         modified           |-> isoformat(t),
         owner              |-> "Administrator",
         docstatus          |-> 0]

reject_payment_entry(auth_header, data) ==
    IF ~authenticate(auth_header) THEN <<AuthFailed>>
    ELSE IF ~TruthyStr(data, "payment_type")
    THEN <<ValidationError("Mandatory field payment_type missing")>>
    ELSE IF ~TruthyStr(data, "party_type") \/ ~TruthyStr(data, "party")
    THEN <<ValidationError("Mandatory fields party_type and party missing")>>
    ELSE <<>>

payment_entry(data, doc_name, t) ==
    [name            |-> doc_name,
     doctype         |-> "Payment Entry",
     payment_type    |-> data.payment_type,
     party_type      |-> data.party_type,
     party           |-> data.party,
     company         |-> Get(data, "company", None),
     posting_date    |-> Get(data, "posting_date", strftime(t)),
     paid_amount     |-> Get(data, "paid_amount", 0),
     received_amount |-> Get(data, "received_amount", 0),
     paid_from       |-> Get(data, "paid_from", ""),
     paid_to         |-> Get(data, "paid_to", ""),
     reference_no    |-> Get(data, "reference_no", ""),
     reference_date  |-> Get(data, "reference_date", strftime(t)),
     status          |-> "Draft",
     creation        |-> isoformat(t),
     modified        |-> isoformat(t),
     owner           |-> "Administrator",
     docstatus       |-> 0]

\* the head and the document of the create view of a doctype
reject_create(doctype, auth_header, data) ==
    CASE doctype = "Customer" -> reject_customer(auth_header, data)
      [] doctype = "Journal Entry" -> reject_journal_entry(auth_header, data)
      [] doctype = "Purchase Invoice" -> reject_purchase_invoice(auth_header, data)
      [] doctype = "Payment Entry" -> reject_payment_entry(auth_header, data)

new_document(doctype, data, doc_name, t) ==
    CASE doctype = "Customer" -> customer(data, doc_name, t)
      [] doctype = "Journal Entry" -> journal_entry(data, doc_name, t)
      [] doctype = "Purchase Invoice" -> purchase_invoice(data, doc_name, t)
      [] doctype = "Payment Entry" -> payment_entry(data, doc_name, t)

\* db = get_db(); name, document, save, 201; finally close
finish_create(st, sess, doctype, data, db, t, fault) ==
    IF db /\ fault = "counter"
    THEN {Out(st, "closed", internal_error, <<>>)}
    ELSE LET g   == generate_doc_name(st, doctype, db, t)
             doc == new_document(doctype, data, g.name, t)
         IN  IF db /\ fault = "save"
             THEN {Out(g.st, "closed", internal_error, <<g.name>>)}
             ELSE {Out(save_document(g.st, doctype, g.name, doc, db, t),
                       Closed(sess, db), Data(201, doc), <<g.name>>)}

\* a create view that draws the name before it checks the request
create_view_names_first(st, sess, doctype, auth_header, data, db, t, fault) ==
    LET r == reject_create(doctype, auth_header, data)
        g == generate_doc_name(st, doctype, db, t)
    IN  IF Len(r) > 0 THEN {Out(g.st, sess, r[1], <<g.name>>)}
        ELSE finish_create(st, sess, doctype, data, db, t, fault)

create_view(st, sess, doctype, auth_header, data, db, t, fault) ==
    LET r == reject_create(doctype, auth_header, data)
    IN  IF Len(r) > 0 THEN {Out(st, sess, r[1], <<>>)}
        ELSE finish_create(st, sess, doctype, data, db, t, fault)

create_customer(st, sess, auth_header, data, db, t, fault) ==
    create_view(st, sess, "Customer", auth_header, data, db, t, fault)

create_journal_entry(st, sess, auth_header, data, db, t, fault) ==
    create_view(st, sess, "Journal Entry", auth_header, data, db, t, fault)

create_purchase_invoice(st, sess, auth_header, data, db, t, fault) ==
    create_view(st, sess, "Purchase Invoice", auth_header, data, db, t, fault)

create_payment_entry(st, sess, auth_header, data, db, t, fault) ==
    create_view(st, sess, "Payment Entry", auth_header, data, db, t, fault)

get_logged_user(st, sess, auth_header) ==
    IF ~authenticate(auth_header) THEN {Out(st, sess, AuthFailed, <<>>)}
    ELSE {Out(st, sess, [status |-> 200, body |-> [message |-> "Administrator"]], <<>>)}

\* args is the query string, a mapping of parameter names to strings
get_resources(st, sess, auth_header, doctype, args, db, fault) ==
    IF ~authenticate(auth_header) THEN {Out(st, sess, AuthFailed, <<>>)}
    ELSE LET limit_start ==
                 IF "limit_start" \in DOMAIN args THEN int(args.limit_start)
                 ELSE [ok |-> TRUE, value |-> DefaultLimitStart]
             limit_page_length ==
                 IF "limit_page_length" \in DOMAIN args THEN int(args.limit_page_length)
                 ELSE [ok |-> TRUE, value |-> DefaultPageLength]
         IN  IF ~limit_start.ok \/ ~limit_page_length.ok \/ (db /\ fault = "query")
             THEN {Out(st, Closed(sess, db), internal_error, <<>>)}
             ELSE {IF r.ok THEN Out(st, Closed(sess, db), Data(200, JsonArray(r.docs)), <<>>)
                   ELSE Out(st, Closed(sess, db), internal_error, <<>>) :
                   r \in list_documents(st, doctype, limit_start.value,
                                        limit_page_length.value, db)}

get_resource(st, sess, auth_header, doctype, name, db, fault) ==
    IF ~authenticate(auth_header) THEN {Out(st, sess, AuthFailed, <<>>)}
    ELSE IF db /\ fault = "query" THEN {Out(st, "closed", internal_error, <<>>)}
    ELSE LET doc == get_document(st, doctype, name, db)
         IN  IF doc = <<>>
             THEN {Out(st, Closed(sess, db), DoesNotExist(doctype, name), <<>>)}
             ELSE {Out(st, Closed(sess, db), Data(200, doc[1]), <<>>)}

\* an update_resource that stores the request body in place of the merge
update_resource_replaces(st, sess, auth_header, doctype, name, update_data, db, t, fault) ==
    IF ~authenticate(auth_header) THEN {Out(st, sess, AuthFailed, <<>>)}
    ELSE LET found == get_document(st, doctype, name, db)
         IN  IF found = <<>>
             THEN {Out(st, Closed(sess, db), DoesNotExist(doctype, name), <<>>)}
             ELSE LET doc == DictSet(update_data, "modified", isoformat(t))
                  IN  {Out(save_document(st, doctype, name, doc, db, t),
                           Closed(sess, db), Data(200, doc), <<>>)}

update_resource(st, sess, auth_header, doctype, name, update_data, db, t, fault) ==
    IF ~authenticate(auth_header) THEN {Out(st, sess, AuthFailed, <<>>)}
    ELSE IF db /\ fault = "query" THEN {Out(st, "closed", internal_error, <<>>)}
    ELSE LET found == get_document(st, doctype, name, db)
         IN  IF found = <<>>
             THEN {Out(st, Closed(sess, db), DoesNotExist(doctype, name), <<>>)}
             ELSE LET doc == DictSet(DictUpdate(found[1], update_data),
                                     "modified", isoformat(t))
                  IN  IF db /\ fault = "save"
                      THEN {Out(st, "closed", internal_error, <<>>)}
                      ELSE {Out(save_document(st, doctype, name, doc, db, t),
                                Closed(sess, db), Data(200, doc), <<>>)}

delete_resource(st, sess, auth_header, doctype, name, db, fault) ==
    IF ~authenticate(auth_header) THEN {Out(st, sess, AuthFailed, <<>>)}
    ELSE IF db /\ fault = "query" THEN {Out(st, "closed", internal_error, <<>>)}
    ELSE LET r == delete_document(st, doctype, name, db)
         IN  IF ~r.ok
             THEN {Out(st, Closed(sess, db), DoesNotExist(doctype, name), <<>>)}
             ELSE {Out(r.st, Closed(sess, db),
                       [status |-> 200, body |-> [message |-> "ok"]], <<>>)}

RECURSIVE SumLens(_, _)
\* sum(len(docs) for docs in documents_memory.values())
SumLens(m, keys) ==
    IF keys = {} THEN 0
    ELSE LET k == CHOOSE k \in keys : TRUE
         IN  Len(m[k]) + SumLens(m, keys \ {k})

\* health: no authentication; the session is closed only after a count
\* that did not raise
health(st, sess, db, fault) ==
    LET db_status == IF db THEN "connected" ELSE "in-memory fallback"
        answer(doc_count) ==
            [status |-> 200,
             body |-> [status |-> "ok", message |-> "ERPNext Mock API is running",
                       database |-> db_status, total_documents |-> doc_count]]
    IN  IF db
        THEN IF fault = "query"
             THEN {Out(st, "open", answer(0), <<>>)}
             ELSE {Out(st, "closed", answer(Len(st.db_documents)), <<>>)}
        ELSE {Out(st, sess, answer(SumLens(st.documents_memory,
                                           DOMAIN st.documents_memory)), <<>>)}

(***************************************************************************)
(* The request boundary: the URL map of the @app.route decorators and the  *)
(* body of the request.  json is <<>> for a request without a JSON body    *)
(* and <<data>> for one with the JSON object data.                         *)
(***************************************************************************)
\* the page the framework renders for an HTTP error that has no
\* @app.errorhandler: it is not JSON
Html(status, title) == [status |-> status, body |-> [html |-> title]]

\* the path matches a rule, the method is not among the rule's methods
MethodNotAllowed == Html(405, "Method Not Allowed")

\* not_found: the 404 handler, for a path no rule matches
not_found == Err(404, "Not Found", "NotFoundError")

\* request.get_json() without a JSON body returns None, or aborts the
\* request with 400 (an empty body declared as JSON) or with 415 (no JSON
\* content type), as the headers of the request and the release of the
\* framework have it
get_json(json) ==
    IF Len(json) = 0 THEN {"None", "BadRequest", "UnsupportedMediaType"}
    ELSE {"data"}

\* the response of a view whose get_json() found no body: data.get and
\* doc.update raise on None and the 500 handler answers
no_json_body(result) ==
    CASE result = "None" -> internal_error
      [] result = "BadRequest" -> Html(400, "Bad Request")
      [] result = "UnsupportedMediaType" -> Html(415, "Unsupported Media Type")

\* a create view from the request: authenticate, get_json, the rules
create_request(st, sess, doctype, auth_header, json, db, t) ==
    IF ~authenticate(auth_header) THEN {Out(st, sess, AuthFailed, <<>>)}
    ELSE IF Len(json) = 0
    THEN {Out(st, sess, no_json_body(result), <<>>) : result \in get_json(json)}
    ELSE create_view(st, sess, doctype, auth_header, json[1], db, t, "none")

\* update_resource from the request: get_json runs after the lookup
update_request(st, sess, doctype, name, auth_header, json, db, t) ==
    IF Len(json) > 0
    THEN update_resource(st, sess, auth_header, doctype, name, json[1], db, t, "none")
    ELSE IF ~authenticate(auth_header) THEN {Out(st, sess, AuthFailed, <<>>)}
    ELSE IF get_document(st, doctype, name, db) = <<>>
    THEN {Out(st, Closed(sess, db), DoesNotExist(doctype, name), <<>>)}
    ELSE {Out(st, Closed(sess, db), no_json_body(result), <<>>) :
          result \in get_json(json)}

\* the URL map.  doctype and name are the segments of the path after
\* /api/resource: both empty for /api/resource itself, name empty for
\* /api/resource/<doctype>
url_map(st, sess, method, doctype, name, auth_header, json, args, db, t) ==
    IF doctype = "" THEN {Out(st, sess, not_found, <<>>)}
    ELSE IF name = ""
    THEN CASE method = "GET" ->
                 get_resources(st, sess, auth_header, doctype, args, db, "none")
           [] method = "POST" /\ doctype \in Doctypes ->
                 create_request(st, sess, doctype, auth_header, json, db, t)
           [] OTHER -> {Out(st, sess, MethodNotAllowed, <<>>)}
    ELSE CASE method = "GET" ->
                 get_resource(st, sess, auth_header, doctype, name, db, "none")
           [] method = "PUT" ->
                 update_request(st, sess, doctype, name, auth_header, json, db, t)
           [] method = "DELETE" ->
                 delete_resource(st, sess, auth_header, doctype, name, db, "none")
           [] OTHER -> {Out(st, sess, MethodNotAllowed, <<>>)}

(***************************************************************************)
(* State.                                                                  *)
(***************************************************************************)
VARIABLES
    SessionLocal,       \* TRUE when the engine was created: get_db() gives a session
    documents_memory,   \* the fallback documents
    counters_memory,    \* the fallback counters
    db_documents,       \* table erpnext_documents
    db_counters,        \* table erpnext_counters
    session,            \* the scoped session: "closed" or "open"
    now,                \* the clock
    respMem,            \* last response of an instance on the fallback store
    respDb,             \* last response of an instance on the durable store
    issued,             \* history: [doctype, name] of every name generate_doc_name
                        \* returned, in order
    born,               \* history: name -> the request body and the document of
                        \* its 201, and whether it was since updated or deleted
    threads             \* the worker threads of the threaded server

vars == <<SessionLocal, documents_memory, counters_memory, db_documents, db_counters,
          session, now, respMem, respDb, issued, born, threads>>

Store == [documents_memory |-> documents_memory,
          counters_memory  |-> counters_memory,
          db_documents     |-> db_documents,
          db_counters      |-> db_counters]

NoResponse == [status |-> 0, body |-> EmptyDict]

Threads == 1..NThreads

\* a worker between requests; resp is the answer to its last request
Idle == [pc |-> "idle", doctype |-> "", data |-> EmptyDict, current |-> 0,
         existing |-> FALSE, doc_name |-> "", doc |-> EmptyDict,
         session |-> "closed", resp |-> NoResponse]

Init ==
    /\ SessionLocal \in BOOLEAN
    /\ documents_memory = [d \in Doctypes |-> <<>>]
    /\ counters_memory = [d \in Doctypes |-> 1]
    /\ db_documents = <<>>
    /\ db_counters = EmptyDict
    /\ session = "closed"
    /\ now = 0
    /\ respMem = NoResponse
    /\ respDb = NoResponse
    /\ issued = <<>>
    /\ born = EmptyDict
    /\ threads = [th \in Threads |-> Idle]

\* the response of the running instance
response == IF SessionLocal THEN respDb ELSE respMem

\* the next sequence number of a doctype on the store db selects
CounterOf(st, doctype, db) ==
    IF db THEN Get(st.db_counters, doctype, 1) ELSE Get(st.counters_memory, doctype, 1)

\* the stored documents of a doctype on the store db selects, as
\* [name, data] in insertion order
Stored(st, doctype, db) ==
    IF db
    THEN LET rows == SelectSeq(st.db_documents, LAMBDA r : r.doctype = doctype)
         IN  [i \in 1..Len(rows) |-> [name |-> rows[i].name, data |-> loads(rows[i].data)]]
    ELSE Get(st.documents_memory, doctype, <<>>)

\* an outcome written to the variables of the store db selects
Assign(db, o) ==
    IF db
    THEN /\ db_documents' = o.st.db_documents
         /\ db_counters' = o.st.db_counters
         /\ session' = o.session
         /\ respDb' = o.resp
    ELSE /\ documents_memory' = o.st.documents_memory
         /\ counters_memory' = o.st.counters_memory
         /\ respMem' = o.resp

\* the variables of the store db does not select
OtherSide(db) ==
    IF db THEN UNCHANGED <<documents_memory, counters_memory, respMem>>
    ELSE UNCHANGED <<db_documents, db_counters, session, respDb>>

\* the fate of the documents after request req was answered resp
Record(req, resp) ==
    IF req.op = "create" /\ resp.status = 201
    THEN DictSet(born, resp.body.data.name,
                 [doctype |-> req.doctype, body |-> req.body, data |-> resp.body.data,
                  touched |-> FALSE, deleted |-> FALSE])
    ELSE IF req.op = "update" /\ resp.status = 200 /\ req.name \in DOMAIN born
    THEN [born EXCEPT ![req.name].touched = TRUE]
    ELSE IF req.op = "delete" /\ resp.status = 200 /\ req.name \in DOMAIN born
    THEN [born EXCEPT ![req.name].touched = TRUE, ![req.name].deleted = TRUE]
    ELSE born

\* one request served from start to end by the running instance
Serve(req, outs) ==
    /\ \E o \in outs :
          /\ Assign(SessionLocal, o)
          /\ issued' = issued \o [i \in 1..Len(o.names) |->
                                     [doctype |-> req.doctype, name |-> o.names[i]]]
          /\ born' = Record(req, o.resp)
    /\ OtherSide(SessionLocal)
    /\ UNCHANGED <<SessionLocal, now, threads>>

Req(op, doctype, name, auth_header, body, args) ==
    [op |-> op, doctype |-> doctype, name |-> name, auth_header |-> auth_header,
     body |-> body, args |-> args]

RECURSIVE SumCounters(_, _, _)
\* the number of names issued so far on the store db selects
SumCounters(st, db, doctypes) ==
    IF doctypes = {} THEN 0
    ELSE LET d == CHOOSE d \in doctypes : TRUE
         IN  (CounterOf(st, d, db) - 1) + SumCounters(st, db, doctypes \ {d})

\* creates stop once MaxIssued names were issued
CanCreate(doctype) == SumCounters(Store, SessionLocal, Doctypes) < MaxIssued

(***************************************************************************)
(* The requests, one action per view.                                      *)
(***************************************************************************)
CreateCustomer(hdr, data, fault) ==
    /\ CanCreate("Customer")
    /\ Serve(Req("create", "Customer", "", hdr, data, EmptyDict),
             create_customer(Store, session, hdr, data, SessionLocal, now, fault))

CreateJournalEntry(hdr, data, fault) ==
    /\ CanCreate("Journal Entry")
    /\ Serve(Req("create", "Journal Entry", "", hdr, data, EmptyDict),
             create_journal_entry(Store, session, hdr, data, SessionLocal, now, fault))

CreatePurchaseInvoice(hdr, data, fault) ==
    /\ CanCreate("Purchase Invoice")
    /\ Serve(Req("create", "Purchase Invoice", "", hdr, data, EmptyDict),
             create_purchase_invoice(Store, session, hdr, data, SessionLocal, now, fault))

CreatePaymentEntry(hdr, data, fault) ==
    /\ CanCreate("Payment Entry")
    /\ Serve(Req("create", "Payment Entry", "", hdr, data, EmptyDict),
             create_payment_entry(Store, session, hdr, data, SessionLocal, now, fault))

GetLoggedUser(hdr) ==
    Serve(Req("whoami", "", "", hdr, EmptyDict, EmptyDict),
          get_logged_user(Store, session, hdr))

GetResources(hdr, doctype, args, fault) ==
    Serve(Req("list", doctype, "", hdr, EmptyDict, args),
          get_resources(Store, session, hdr, doctype, args, SessionLocal, fault))

GetResource(hdr, doctype, name, fault) ==
    Serve(Req("get", doctype, name, hdr, EmptyDict, EmptyDict),
          get_resource(Store, session, hdr, doctype, name, SessionLocal, fault))

UpdateResource(hdr, doctype, name, update_data, fault) ==
    Serve(Req("update", doctype, name, hdr, update_data, EmptyDict),
          update_resource(Store, session, hdr, doctype, name, update_data,
                          SessionLocal, now, fault))

DeleteResource(hdr, doctype, name, fault) ==
    Serve(Req("delete", doctype, name, hdr, EmptyDict, EmptyDict),
          delete_resource(Store, session, hdr, doctype, name, SessionLocal, fault))

Health(fault) ==
    Serve(Req("health", "", "", "", EmptyDict, EmptyDict),
          health(Store, session, SessionLocal, fault))

\* any request to a path under /api/resource
Request(method, doctype, name, hdr, json, args) ==
    LET op == CASE method = "POST" /\ name = "" -> "create"
                [] method = "PUT" /\ name # "" -> "update"
                [] method = "DELETE" /\ name # "" -> "delete"
                [] OTHER -> "read"
    IN  /\ op = "create" => CanCreate(doctype)
        /\ Serve(Req(op, doctype, name, hdr,
                     IF Len(json) = 0 THEN EmptyDict ELSE json[1], args),
                 url_map(Store, session, method, doctype, name, hdr, json, args,
                         SessionLocal, now))

\* time passes
Tick ==
    /\ now < MaxClock
    /\ now' = now + 1
    /\ UNCHANGED <<SessionLocal, documents_memory, counters_memory, db_documents,
                   db_counters, session, respMem, respDb, issued, born, threads>>

(***************************************************************************)
(* The threaded server (app.run serves each request on a thread of its     *)
(* own).  A create view runs as the steps below; between two steps of one  *)
(* thread any other thread may take steps.  Nothing in the source locks.   *)
(***************************************************************************)
\* creates in flight that have no name yet
Unnamed == {th \in Threads : threads[th].pc \in {"counter", "insert", "reload", "bump"}}

\* a step of thread th that leaves it as next and touches no store
Local(th, next) ==
    /\ threads' = [threads EXCEPT ![th] = next]
    /\ UNCHANGED <<SessionLocal, documents_memory, counters_memory, db_documents,
                   db_counters, session, now, respMem, respDb, issued, born>>

\* the request arrives: authenticate, validate, db = get_db()
BeginCreate(th, doctype, hdr, data) ==
    /\ threads[th].pc = "idle"
    /\ Len(issued) + Cardinality(Unnamed) < MaxIssued
    /\ LET r == reject_create(doctype, hdr, data)
       IN  Local(th, IF Len(r) > 0 THEN [Idle EXCEPT !.resp = r[1]]
                     ELSE [Idle EXCEPT !.pc = "counter", !.doctype = doctype,
                                       !.data = data,
                                       !.session = IF SessionLocal THEN "open"
                                                   ELSE "closed"])

\* get_next_counter reads the counter: the query of the durable store,
\* counters_memory.get of the fallback
CounterRead(th) ==
    LET me == threads[th]
    IN  /\ me.pc = "counter"
        /\ IF SessionLocal
           THEN IF me.doctype \in DOMAIN db_counters
                THEN Local(th, [me EXCEPT !.pc = "bump",
                                          !.current = db_counters[me.doctype]])
                ELSE Local(th, [me EXCEPT !.pc = "insert"])
           ELSE Local(th, [me EXCEPT !.pc = "bump",
                                     !.current = Get(counters_memory, me.doctype, 1)])

\* no row was found: insert one and commit; the doctype column is unique,
\* so the insert raises when another thread inserted first
CounterInsert(th) ==
    LET me == threads[th]
    IN  /\ me.pc = "insert"
        /\ IF me.doctype \in DOMAIN db_counters
           THEN /\ threads' = [threads EXCEPT ![th] = [Idle EXCEPT !.resp = internal_error]]
                /\ UNCHANGED db_counters
           ELSE /\ threads' = [threads EXCEPT ![th] = [me EXCEPT !.pc = "reload"]]
                /\ db_counters' = DictSet(db_counters, me.doctype, 1)
        /\ UNCHANGED <<SessionLocal, documents_memory, counters_memory, db_documents,
                       session, now, respMem, respDb, issued, born>>

\* current = counter_obj.counter after the commit expired the object
CounterReload(th) ==
    LET me == threads[th]
    IN  /\ me.pc = "reload"
        /\ Local(th, [me EXCEPT !.pc = "bump", !.current = db_counters[me.doctype]])

\* the counter is written back as current + 1; generate_doc_name returns
\* and the view builds its document
CounterBump(th) ==
    LET me == threads[th]
        doc_name == FormatName(me.doctype, me.current, now)
    IN  /\ me.pc = "bump"
        /\ IF SessionLocal
           THEN /\ db_counters' = DictSet(db_counters, me.doctype, me.current + 1)
                /\ UNCHANGED counters_memory
           ELSE /\ counters_memory' = DictSet(counters_memory, me.doctype, me.current + 1)
                /\ UNCHANGED db_counters
        /\ threads' = [threads EXCEPT ![th] =
                          [me EXCEPT !.pc = "save", !.doc_name = doc_name,
                                     !.doc = new_document(me.doctype, me.data,
                                                          doc_name, now)]]
        /\ issued' = Append(issued, [doctype |-> me.doctype, name |-> doc_name])
        /\ UNCHANGED <<SessionLocal, documents_memory, db_documents, session, now,
                       respMem, respDb, born>>

\* save_document: the fallback assigns and the view answers; the durable
\* store first looks the name up
SaveLookup(th) ==
    LET me == threads[th]
        resp == Data(201, me.doc)
    IN  /\ me.pc = "save"
        /\ IF SessionLocal
           THEN /\ threads' = [threads EXCEPT ![th] =
                      [me EXCEPT !.pc = "commit",
                                 !.existing = \E i \in 1..Len(db_documents) :
                                                 db_documents[i].name = me.doc_name]]
                /\ UNCHANGED <<documents_memory, born>>
           ELSE /\ documents_memory' =
                      save_document(Store, me.doctype, me.doc_name, me.doc,
                                    FALSE, now).documents_memory
                /\ threads' = [threads EXCEPT ![th] = [Idle EXCEPT !.resp = resp]]
                /\ born' = Record(Req("create", me.doctype, "", "", me.data, EmptyDict),
                                  resp)
        /\ UNCHANGED <<SessionLocal, counters_memory, db_documents, db_counters,
                       session, now, respMem, respDb, issued>>

\* the update or the insert the lookup chose, and the commit; either raises
\* when the row it relies on changed since the lookup
SaveCommit(th) ==
    LET me == threads[th]
        present == \E i \in 1..Len(db_documents) : db_documents[i].name = me.doc_name
        resp == IF present = me.existing THEN Data(201, me.doc) ELSE internal_error
    IN  /\ me.pc = "commit"
        /\ db_documents' = IF present = me.existing
                           THEN save_document(Store, me.doctype, me.doc_name, me.doc,
                                              TRUE, now).db_documents
                           ELSE db_documents
        /\ threads' = [threads EXCEPT ![th] = [Idle EXCEPT !.resp = resp]]
        /\ born' = Record(Req("create", me.doctype, "", "", me.data, EmptyDict), resp)
        /\ UNCHANGED <<SessionLocal, documents_memory, counters_memory, db_counters,
                       session, now, respMem, respDb, issued>>

\* update_resource on a thread.  The request arrives: authenticate,
\* db = get_db(), doc = get_document(...), 404 when there is none.  On the
\* fallback store doc is the stored dict itself, on the durable store a
\* dict of its own made by json.loads.
BeginUpdate(th, doctype, name, hdr, update_data) ==
    LET found == get_document(Store, doctype, name, SessionLocal)
    IN  /\ threads[th].pc = "idle"
        /\ Local(th, IF ~authenticate(hdr)
                     THEN [Idle EXCEPT !.pc = "done", !.resp = AuthFailed]
                     ELSE IF found = <<>>
                     THEN [Idle EXCEPT !.pc = "done", !.resp = DoesNotExist(doctype, name)]
                     ELSE [Idle EXCEPT !.pc = "merge", !.doctype = doctype,
                                       !.doc_name = name, !.data = update_data,
                                       !.doc = found[1],
                                       !.session = IF SessionLocal THEN "open"
                                                   ELSE "closed"])

\* doc.update(update_data); doc['modified'] = now.  On the fallback store
\* this changes the stored record, which doc is
MergeUpdate(th) ==
    LET me  == threads[th]
        doc == IF SessionLocal THEN me.doc
               ELSE get_document(Store, me.doctype, me.doc_name, FALSE)[1]
        merged == DictSet(DictUpdate(doc, me.data), "modified", isoformat(now))
    IN  /\ me.pc = "merge"
        /\ threads' = [threads EXCEPT ![th] = [me EXCEPT !.pc = "write", !.doc = merged]]
        /\ documents_memory' =
               IF SessionLocal THEN documents_memory
               ELSE save_document(Store, me.doctype, me.doc_name, merged,
                                  FALSE, now).documents_memory
        /\ UNCHANGED <<SessionLocal, counters_memory, db_documents, db_counters,
                       session, now, respMem, respDb, issued, born>>

\* save_document(doctype, name, doc, db) and the 200 with doc.  On the
\* fallback store the dict assigned is the stored one as it is by now
SaveUpdate(th) ==
    LET me  == threads[th]
        doc == IF SessionLocal THEN me.doc
               ELSE get_document(Store, me.doctype, me.doc_name, FALSE)[1]
        resp == Data(200, doc)
    IN  /\ me.pc = "write"
        /\ db_documents' =
               IF SessionLocal
               THEN save_document(Store, me.doctype, me.doc_name, doc, TRUE,
                                  now).db_documents
               ELSE db_documents
        /\ threads' = [threads EXCEPT ![th] =
                          [me EXCEPT !.pc = "done", !.session = "closed",
                                     !.resp = resp]]
        /\ born' = Record(Req("update", me.doctype, me.doc_name, "",
                              me.data, EmptyDict), resp)
        /\ UNCHANGED <<SessionLocal, documents_memory, counters_memory, db_counters,
                       session, now, respMem, respDb, issued>>

(***************************************************************************)
(* Inputs.                                                                 *)
(***************************************************************************)
GoodHeader == "token test_api_key:test_api_secret"

Headers == {GoodHeader, "token bad:credentials"}

CustomerBodies ==
    {EmptyDict, [customer_name |-> "Acme", email_id |-> "a@acme.com"]}

Line(account, debit, credit) ==
    [account |-> account, debit_in_account_currency |-> debit,
     credit_in_account_currency |-> credit]

JournalBodies ==
    {[company |-> "Test Company",
      accounts |-> <<Line("Bank", 0, 150000), Line("Transport", 150000, 0)>>]}

InvoiceBodies ==
    {[supplier |-> "Supplier A", items |-> <<[item_code |-> "X", amount |-> 5000]>>]}

PaymentBodies ==
    {[payment_type |-> "Pay", party_type |-> "Supplier", party |-> "Supplier A",
      paid_amount |-> 500000]}

UpdateBodies ==
    {[email_id |-> "new@x.com"], [name |-> "CUST-00002"]}

ListArgs == {EmptyDict}

\* the documents a client addresses: those it was given a name for, one
\* that never existed, and one of a doctype the server does not know
Targets ==
    {<<issued[i].doctype, issued[i].name>> : i \in 1..Len(issued)}
        \cup {<<"Customer", "CUST-00099">>, <<"Supplier", "SUP-00001">>}

ListDoctypes == {"Customer", "Supplier"}

\* The sequential server: every request is served from start to end.  The
\* requests of a specification are drawn from the sets it passes.
Creates(H, CB, JB, F) ==
    \E hdr \in H, fault \in F :
        \/ \E data \in CB : CreateCustomer(hdr, data, fault)
        \/ \E data \in JB : CreateJournalEntry(hdr, data, fault)

MoreCreates(H, IB, PB, F) ==
    \E hdr \in H, fault \in F :
        \/ \E data \in IB : CreatePurchaseInvoice(hdr, data, fault)
        \/ \E data \in PB : CreatePaymentEntry(hdr, data, fault)

Reads(H, LD, LA, F) ==
    \E hdr \in H, fault \in F :
        \/ GetLoggedUser(hdr)
        \/ \E doctype \in LD, args \in LA : GetResources(hdr, doctype, args, fault)
        \/ \E target \in Targets : GetResource(hdr, target[1], target[2], fault)
        \/ Health(fault)

Writes(H, UB, F) ==
    \E hdr \in H, fault \in F :
        \/ \E target \in Targets, data \in UB :
              UpdateResource(hdr, target[1], target[2], data, fault)
        \/ \E target \in Targets : DeleteResource(hdr, target[1], target[2], fault)

Next ==
    \/ Creates(Headers, CustomerBodies, JournalBodies, {"none"})
    \/ Reads(Headers, ListDoctypes, ListArgs, {"none"})
    \/ Writes(Headers, UpdateBodies, {"none"})
    \/ Tick

Spec == Init /\ [][Next]_vars

\* The threaded server under creates.
NextConc ==
    \/ \E th \in Threads, hdr \in Headers :
          \/ \E data \in CustomerBodies : BeginCreate(th, "Customer", hdr, data)
          \/ \E data \in JournalBodies : BeginCreate(th, "Journal Entry", hdr, data)
    \/ \E th \in Threads : CounterRead(th)
    \/ \E th \in Threads : CounterInsert(th)
    \/ \E th \in Threads : CounterReload(th)
    \/ \E th \in Threads : CounterBump(th)
    \/ \E th \in Threads : SaveLookup(th)
    \/ \E th \in Threads : SaveCommit(th)
    \/ Tick

SpecConc == Init /\ [][NextConc]_vars

\* The sequential server under every kind of Authorization header.
BadHeaders ==
    {"",                                        \* no Authorization header
     "test_api_key:test_api_secret",            \* no 'token ' prefix
     "Bearer test_api_key:test_api_secret",     \* another scheme
     "token test_api_key test_api_secret",      \* no ':' separator
     "token nobody:test_api_secret",            \* unknown key
     "token test_api_key:demo_secret",          \* the secret of another key
     "token test_api_key:test_api_secret:x"}    \* one ':' too many

AuthHeaders == BadHeaders \cup {GoodHeader}

NextAuth ==
    \/ Creates(AuthHeaders, {[customer_name |-> "Acme"]}, JournalBodies, {"none"})
    \/ MoreCreates(AuthHeaders, InvoiceBodies, PaymentBodies, {"none"})
    \/ Reads(AuthHeaders, {"Customer"}, ListArgs, {"none"})
    \/ Writes(AuthHeaders, {[email_id |-> "new@x.com"]}, {"none"})

SpecAuth == Init /\ [][NextAuth]_vars

\* The sequential server under Journal Entry creates.
Entry(lines) == [company |-> "Test Company", accounts |-> lines]

EntryBodies ==
    {Entry(<<Line("Cash", 100000, 0), Line("Sales", 0, 50000)>>),
     Entry(<<Line("Cash", 150000, 0), Line("Sales", 0, 100000),
             Line("Tax", 0, 50000)>>),
     Entry(<<Line("Cash", 2, 0), Line("Sales", 0, 1)>>),
     Entry(<<Line("Cash", 4, 0), Line("Sales", 0, 3)>>),
     Entry(<<Line("Cash", 100000, 0)>>),
     [accounts |-> <<Line("Cash", 100000, 0), Line("Sales", 0, 100000)>>],
     [company |-> "Test Company"]}

NextJE ==
    \/ \E data \in EntryBodies : CreateJournalEntry(GoodHeader, data, "none")
    \/ \E target \in Targets : GetResource(GoodHeader, target[1], target[2], "none")
    \/ \E target \in Targets : DeleteResource(GoodHeader, target[1], target[2], "none")
    \/ Tick

SpecJE == Init /\ [][NextJE]_vars

\* The sequential server under creates of the four doctypes and reads.
NextCreate ==
    \/ Creates({GoodHeader}, CustomerBodies, JournalBodies, {"none"})
    \/ MoreCreates({GoodHeader}, InvoiceBodies, PaymentBodies, {"none"})
    \/ \E target \in Targets : GetResource(GoodHeader, target[1], target[2], "none")
    \/ \E doctype \in Doctypes : GetResources(GoodHeader, doctype, EmptyDict, "none")
    \/ Tick

SpecCreate == Init /\ [][NextCreate]_vars

\* The sequential server of the durable store while storage calls raise.
Faults == {"none", "counter", "save", "query"}

NextFault ==
    \/ Creates({GoodHeader}, {[customer_name |-> "Acme"]}, JournalBodies, Faults)
    \/ Reads({GoodHeader}, {"Customer"}, ListArgs, Faults)
    \/ Writes({GoodHeader}, {[email_id |-> "new@x.com"]}, Faults)

SpecFault == Init /\ [][NextFault]_vars

(***************************************************************************)
(* Two instances side by side, one on the fallback store and one on the    *)
(* durable store, given the same requests.  documents_memory,              *)
(* counters_memory and respMem are the first instance; db_documents,       *)
(* db_counters, session and respDb the second.                             *)
(***************************************************************************)
\* the view a request is routed to, on the store db selects
Handle(req, st, sess, db, t) ==
    CASE req.op = "create" ->
            create_view(st, sess, req.doctype, req.auth_header, req.body, db, t, "none")
      [] req.op = "list" ->
            get_resources(st, sess, req.auth_header, req.doctype, req.args, db, "none")
      [] req.op = "get" ->
            get_resource(st, sess, req.auth_header, req.doctype, req.name, db, "none")
      [] req.op = "update" ->
            update_resource(st, sess, req.auth_header, req.doctype, req.name, req.body,
                            db, t, "none")
      [] req.op = "delete" ->
            delete_resource(st, sess, req.auth_header, req.doctype, req.name, db, "none")

\* one request served by both instances
Twin(req) ==
    /\ \E om \in Handle(req, Store, session, FALSE, now),
          od \in Handle(req, Store, session, TRUE, now) :
          /\ documents_memory' = om.st.documents_memory
          /\ counters_memory' = om.st.counters_memory
          /\ respMem' = om.resp
          /\ db_documents' = od.st.db_documents
          /\ db_counters' = od.st.db_counters
          /\ session' = od.session
          /\ respDb' = od.resp
          /\ issued' = issued \o [i \in 1..Len(om.names) |->
                                     [doctype |-> req.doctype, name |-> om.names[i]]]
          /\ born' = Record(req, om.resp)
    /\ UNCHANGED <<SessionLocal, now, threads>>

PageArgs ==
    {EmptyDict, [limit_start |-> "1"], [limit_page_length |-> "1"],
     [limit_start |-> "-1"], [limit_start |-> "0", limit_page_length |-> "-1"]}

NextEquiv ==
    \/ \E data \in CustomerBodies :
          /\ SumCounters(Store, FALSE, Doctypes) < MaxIssued
          /\ Twin(Req("create", "Customer", "", GoodHeader, data, EmptyDict))
    \/ \E doctype \in ListDoctypes, args \in PageArgs :
          Twin(Req("list", doctype, "", GoodHeader, EmptyDict, args))
    \/ \E target \in Targets :
          Twin(Req("get", target[1], target[2], GoodHeader, EmptyDict, EmptyDict))
    \/ \E target \in Targets, data \in UpdateBodies :
          Twin(Req("update", target[1], target[2], GoodHeader, data, EmptyDict))
    \/ \E target \in Targets :
          Twin(Req("delete", target[1], target[2], GoodHeader, EmptyDict, EmptyDict))
    \/ Tick

SpecEquiv == Init /\ [][NextEquiv]_vars

\* The sequential server under requests of any method, path and body.
Methods == {"GET", "POST", "PUT", "DELETE"}

\* no body, the empty object, a Customer, a creation timestamp
RequestBodies ==
    {<<>>, <<EmptyDict>>, <<[customer_name |-> "Acme", email_id |-> "a@acme.com"]>>,
     <<[creation |-> "1999-T0"]>>}

\* /api/resource, the collections and the documents a client addresses
Paths ==
    {<<"", "">>, <<"Customer", "">>, <<"Journal Entry", "">>, <<"Supplier", "">>}
        \cup Targets

NextRoute ==
    \/ \E method \in Methods, path \in Paths, hdr \in Headers, json \in RequestBodies :
          Request(method, path[1], path[2], hdr, json, EmptyDict)
    \/ Tick

SpecRoute == Init /\ [][NextRoute]_vars

\* The sequential server under creates that fail none, one or several of
\* the rules of their doctype.
RuleBodies(doctype) ==
    CASE doctype = "Customer" -> CustomerBodies \cup {[customer_name |-> ""]}
      [] doctype = "Journal Entry" -> EntryBodies \cup {EmptyDict}
      [] doctype = "Purchase Invoice" ->
            InvoiceBodies \cup
                {EmptyDict, [supplier |-> "Supplier A"],
                 [supplier |-> "Supplier A", items |-> <<>>],
                 [items |-> <<[item_code |-> "X", amount |-> 5000]>>]}
      [] doctype = "Payment Entry" ->
            PaymentBodies \cup
                {EmptyDict, [payment_type |-> "Pay"],
                 [payment_type |-> "Pay", party_type |-> "Supplier"],
                 [payment_type |-> "Pay", party |-> "Supplier A"],
                 [party_type |-> "Supplier", party |-> "Supplier A"]}

NextRules ==
    \/ Creates({GoodHeader}, RuleBodies("Customer"), RuleBodies("Journal Entry"),
               {"none"})
    \/ MoreCreates({GoodHeader}, RuleBodies("Purchase Invoice"),
                   RuleBodies("Payment Entry"), {"none"})
    \/ Tick

SpecRules == Init /\ [][NextRules]_vars

\* The sequential server under creates that are refused, rejected, served
\* or failed by the storage, and deletes.
GapBodies(doctype) ==
    CASE doctype = "Customer" -> CustomerBodies
      [] doctype = "Journal Entry" ->
            JournalBodies \cup
                {EmptyDict, Entry(<<Line("Cash", 100000, 0), Line("Sales", 0, 50000)>>)}
      [] doctype = "Purchase Invoice" -> InvoiceBodies \cup {EmptyDict}
      [] doctype = "Payment Entry" -> PaymentBodies \cup {EmptyDict}

\* the storage calls of a create that can raise
CreateFaults == {"none", "counter", "save"}

NextGap ==
    \/ Creates(Headers, GapBodies("Customer"), GapBodies("Journal Entry"),
               CreateFaults)
    \/ MoreCreates(Headers, GapBodies("Purchase Invoice"),
                   GapBodies("Payment Entry"), CreateFaults)
    \/ \E target \in Targets : DeleteResource(GoodHeader, target[1], target[2], "none")

SpecGap == Init /\ [][NextGap]_vars

\* The threaded server under PUTs: records are created, and each thread
\* serves one PUT that sets a field no other thread sets.
PutBody(th) ==
    CASE th = 1 -> [email_id |-> "new@x.com"]
      [] th = 2 -> [mobile_no |-> "555"]
      [] OTHER -> [territory |-> "North"]

NextPut ==
    \/ \E data \in CustomerBodies : CreateCustomer(GoodHeader, data, "none")
    \/ \E th \in Threads, target \in Targets :
          BeginUpdate(th, target[1], target[2], GoodHeader, PutBody(th))
    \/ \E th \in Threads : MergeUpdate(th)
    \/ \E th \in Threads : SaveUpdate(th)
    \/ Tick

SpecPut == Init /\ [][NextPut]_vars

(***************************************************************************)
(* Properties.                                                             *)
(***************************************************************************)
\* the sequence number a name ends with
sequence_number(name) ==
    LET parts == Split(name, "-")
    IN  int(parts[Len(parts)]).value

\* the names issued for a doctype, in the order they were issued
IssuedFor(doctype) ==
    LET mine == SelectSeq(issued, LAMBDA e : e.doctype = doctype)
    IN  [i \in 1..Len(mine) |-> mine[i].name]

\* C1: for every doctype, no two calls of the name generator return the
\* same identifier, however the counter reads and counter writes of
\* concurrent creates interleave, on the fallback and on the durable store.
GeneratedNamesDistinct ==
    \A i, j \in 1..Len(issued) : i # j => issued[i] # issued[j]

\* C2: in a sequential run of creates, updates and deletes the counter of
\* each doctype starts at 1 and the sequence numbers of its successive
\* successful creates strictly increase; the counter stays above every
\* number issued, so no number and no name comes back after a delete.
CounterStrictlyIncreasing ==
    \A doctype \in Doctypes :
        LET names == IssuedFor(doctype)
        IN  /\ CounterOf(Store, doctype, SessionLocal) >= 1
            /\ Len(names) > 0 => sequence_number(names[1]) = 1
            /\ \A i, j \in 1..Len(names) :
                  i < j => /\ sequence_number(names[i]) < sequence_number(names[j])
                           /\ names[i] # names[j]
            /\ \A i \in 1..Len(names) :
                  sequence_number(names[i]) < CounterOf(Store, doctype, SessionLocal)
            /\ doctype = "Customer" =>
                  \A i \in 1..Len(names) :
                      names[i] = "CUST-" \o Pad(ToString(i), PadWidth)

\* a Customer was created and deleted, and the next Customer got number 2
CounterAfterDelete ==
    /\ Len(issued) = 2
    /\ issued[1].doctype = "Customer"
    /\ issued[2] = [doctype |-> "Customer", name |-> "CUST-00002"]
    /\ issued[1].name \in DOMAIN born
    /\ born[issued[1].name].deleted
    /\ response.status = 201

\* C5: after any sequence of creates, updates (whose body may carry a
\* `name` field) and deletes, the `name` field of every stored record is
\* the name it was created with and is stored under, and no two stored
\* records of a doctype share a name.
NameImmutableAndUnique ==
    \A doctype \in Doctypes :
        LET recs == Stored(Store, doctype, SessionLocal)
        IN  \A i \in 1..Len(recs) :
                /\ recs[i].data.name = recs[i].name
                /\ recs[i].name \in DOMAIN born
                /\ recs[i].data.name = born[recs[i].name].data.name
                /\ \A j \in 1..Len(recs) : i # j => recs[i].name # recs[j].name

\* C6: once {doctype}/{name} was deleted, every GET of it is answered 404,
\* and a DELETE of a name that was deleted or never existed is answered
\* 404 DoesNotExistError and removes nothing.
Gone(doctype, name) ==
    /\ \A o \in get_resource(Store, session, GoodHeader, doctype, name,
                               SessionLocal, "none") :
          o.resp = DoesNotExist(doctype, name) /\ o.resp.status = 404
    /\ \A o \in delete_resource(Store, session, GoodHeader, doctype, name,
                                  SessionLocal, "none") :
          /\ o.resp.status = 404
          /\ o.resp.body.exc_type = "DoesNotExistError"
          /\ o.st = Store

DeletedStaysGone ==
    /\ \A name \in DOMAIN born :
          born[name].deleted => Gone(born[name].doctype, name)
    /\ \A target \in Targets :
          (\A i \in 1..Len(issued) : issued[i].name # target[2])
              => Gone(target[1], target[2])

\* a record was deleted and a later request for it was answered 404
AnsweredGone ==
    \E name \in DOMAIN born :
        /\ born[name].deleted
        /\ response = DoesNotExist(born[name].doctype, name)

\* C7: an authenticated PUT on an existing record changes the fields of
\* the request body and `modified` and nothing else: the other fields of
\* the record, the other records, their order and the counters stay, and
\* the response carries the merged record.
FrameBodies ==
    UpdateBodies \cup {[customer_name |-> "Bolt", phone |-> "555"],
                       [modified |-> "never"]}

UpdateHasFrame(doctype, name, body) ==
    \A o \in update_resource(Store, session, GoodHeader, doctype, name, body,
                              SessionLocal, now, "none") :
        LET old    == get_document(Store, doctype, name, SessionLocal)[1]
            new    == get_document(o.st, doctype, name, SessionLocal)[1]
            before == [d \in Doctypes |-> Stored(Store, d, SessionLocal)]
            after  == [d \in Doctypes |-> Stored(o.st, d, SessionLocal)]
        IN  /\ o.resp = Data(200, new)
            /\ DOMAIN new = DOMAIN old \cup DOMAIN body \cup {"modified"}
            /\ \A k \in DOMAIN body \ {"modified"} : new[k] = body[k]
            /\ \A k \in DOMAIN old \ (DOMAIN body \cup {"modified"}) : new[k] = old[k]
            /\ new.modified = isoformat(now)
            /\ \A d \in Doctypes :
                  /\ Len(after[d]) = Len(before[d])
                  /\ \A i \in 1..Len(before[d]) :
                        /\ after[d][i].name = before[d][i].name
                        /\ (d # doctype \/ before[d][i].name # name)
                              => after[d][i] = before[d][i]
            /\ o.st.counters_memory = counters_memory
            /\ o.st.db_counters = db_counters
            /\ \A d \in Doctypes :
                  CounterOf(o.st, d, SessionLocal) = CounterOf(Store, d, SessionLocal)

UpdateChangesOnlyBody ==
    \A doctype \in Doctypes :
        LET recs == Stored(Store, doctype, SessionLocal)
        IN  \A i \in 1..Len(recs), body \in FrameBodies :
                UpdateHasFrame(doctype, recs[i].name, body)

\* a Customer took a PUT of email_id after the clock moved: the field and
\* `modified` changed, the rest is as created, and a second record is stored
UpdatedCustomer ==
    \E name \in DOMAIN born :
        /\ born[name].doctype = "Customer"
        /\ born[name].touched /\ ~born[name].deleted
        /\ response.status = 200
        /\ LET found == get_document(Store, "Customer", name, SessionLocal)
           IN  /\ Len(found) = 1
               /\ response = Data(200, found[1])
               /\ found[1].email_id = "new@x.com"
               /\ found[1].email_id # born[name].data.email_id
               /\ found[1].modified # found[1].creation
               /\ found[1].customer_name = born[name].data.customer_name
        /\ Cardinality(DOMAIN born) = 2

\* C3: a request to a protected endpoint whose Authorization header is
\* absent, has no 'token ' prefix, has no ':' separator, names an unknown
\* key or carries another secret is answered 401 AuthenticationError, and
\* nothing else runs: the store, the counters and the session are as
\* before and no name is generated, whatever the body, the query string and
\* the state of the storage.
Refused(outs) ==
    /\ outs = {Out(Store, session, AuthFailed, <<>>)}
    /\ AuthFailed.status = 401
    /\ AuthFailed.body.exc_type = "AuthenticationError"

UnauthenticatedRefused ==
    \A hdr \in BadHeaders, fault \in Faults :
        /\ Refused(get_logged_user(Store, session, hdr))
        /\ \A data \in CustomerBodies :
              Refused(create_customer(Store, session, hdr, data, SessionLocal, now, fault))
        /\ \A data \in EntryBodies :
              Refused(create_journal_entry(Store, session, hdr, data,
                                           SessionLocal, now, fault))
        /\ \A data \in InvoiceBodies \cup {EmptyDict} :
              Refused(create_purchase_invoice(Store, session, hdr, data,
                                              SessionLocal, now, fault))
        /\ \A data \in PaymentBodies \cup {EmptyDict} :
              Refused(create_payment_entry(Store, session, hdr, data,
                                           SessionLocal, now, fault))
        /\ \A doctype \in ListDoctypes, args \in PageArgs \cup {[limit_start |-> "abc"]} :
              Refused(get_resources(Store, session, hdr, doctype, args,
                                    SessionLocal, fault))
        /\ \A target \in Targets :
              /\ Refused(get_resource(Store, session, hdr, target[1], target[2],
                                      SessionLocal, fault))
              /\ Refused(delete_resource(Store, session, hdr, target[1], target[2],
                                         SessionLocal, fault))
              /\ \A data \in UpdateBodies :
                    Refused(update_resource(Store, session, hdr, target[1], target[2],
                                            data, SessionLocal, now, fault))

\* a request was refused while two records were stored
RefusedWithRecords ==
    /\ response = AuthFailed
    /\ Len(issued) = 2
    /\ \A i \in 1..Len(issued) :
          Len(get_document(Store, issued[i].doctype, issued[i].name, SessionLocal)) = 1

\* C4: an authenticated Journal Entry create with a company and at least 2
\* lines is answered 400 ValidationError quoting both totals, and stores
\* nothing, when the debits and the credits differ by more than 0.01; else
\* it is answered 201 and the stored record has difference 0 and the sums
\* of its lines as total_debit and total_credit.
RECURSIVE CentsOf(_, _)
\* the sum of the literals of a field, in cents
CentsOf(lines, field) ==
    IF lines = <<>> THEN 0 ELSE Get(Head(lines), field, 0) + CentsOf(Tail(lines), field)

\* the rule for the request data, over the step that served it
BalanceRule(data) ==
    LET debit  == CentsOf(data.accounts, "debit_in_account_currency")
        credit == CentsOf(data.accounts, "credit_in_account_currency")
        total_debit  == SumField(data.accounts, "debit_in_account_currency")
        total_credit == SumField(data.accounts, "credit_in_account_currency")
    IN  IF debit - credit > ToleranceCents \/ credit - debit > ToleranceCents
        THEN /\ response' = ValidationError("Debit (" \o repr(total_debit)
                                            \o ") must equal Credit ("
                                            \o repr(total_credit) \o ")")
             /\ response'.status = 400
             /\ Store' = Store
        ELSE /\ response'.status = 201
             /\ LET found == get_document(Store', "Journal Entry",
                                          response'.body.data.name, SessionLocal)
                IN  /\ Len(found) = 1
                    /\ found[1].difference = 0
                    /\ found[1].total_debit = total_debit
                    /\ found[1].total_credit = total_credit

BalancedOrRejected ==
    [][\A data \in EntryBodies :
          (/\ TruthyStr(data, "company")
           /\ TruthyList(data, "accounts") /\ Len(data.accounts) >= 2
           /\ CreateJournalEntry(GoodHeader, data, "none"))
              => BalanceRule(data)]_vars

\* C8: a GET of the name a create returned, with no update or delete in
\* between, returns the record of the 201, and with it every field of the
\* request body that is not set by the server.
ServerSet ==
    {"name", "doctype", "creation", "modified", "owner", "docstatus", "status",
     "total_debit", "total_credit", "difference", "total", "grand_total",
     "outstanding_amount"}

CreateThenGet ==
    \A name \in DOMAIN born :
        ~born[name].touched =>
            \A o \in get_resource(Store, session, GoodHeader, born[name].doctype,
                                   name, SessionLocal, "none") :
                /\ o.resp = Data(200, born[name].data)
                /\ \A k \in (DOMAIN born[name].body \ ServerSet)
                              \cap DOMAIN o.resp.body.data :
                      o.resp.body.data[k] = born[name].body[k]
                /\ o.st = Store

\* a Payment Entry and a Purchase Invoice were created and one of them
\* was read back
ReadBack ==
    /\ \E name \in DOMAIN born :
          /\ born[name].doctype = "Payment Entry"
          /\ ~born[name].touched
          /\ response = Data(200, born[name].data)
          /\ response.body.data.party = born[name].body.party
    /\ \E name \in DOMAIN born : born[name].doctype = "Purchase Invoice"

\* C9: the fallback store and the durable store answer the same sequence
\* of create, get, list (with any integer limit_start and
\* limit_page_length), update and delete requests alike at every step.
BackendsAgree == respMem = respDb

\* C10: on the durable store no session is open once the response of a
\* request was produced, whether the storage calls of the request raised
\* or not, /health included.
SessionReleased == SessionLocal => session = "closed"

\* C11: every request, of any method, path and body, ends in one response
\* that is a success (200 or 201) or a structured error: a body of exactly
\* exc and exc_type with status 400, 401, 404 or 500.
Shaped(resp) ==
    \/ resp.status \in {200, 201}
    \/ /\ resp.status \in {400, 401, 404, 500}
       /\ DOMAIN resp.body = {"exc", "exc_type"}

EveryResponseShaped == response # NoResponse => Shaped(response)

\* C12: whatever field mapping a PUT carries, the `creation` value of
\* every stored record is the one set when the record was created.
CreationPreserved ==
    \A doctype \in Doctypes :
        LET recs == Stored(Store, doctype, SessionLocal)
        IN  \A i \in 1..Len(recs) :
                recs[i].name \in DOMAIN born =>
                    recs[i].data.creation = born[recs[i].name].data.creation

\* C13: an authenticated create is answered 201 exactly when no rule of
\* its doctype fails, and else 400 ValidationError with the message of the
\* first failing rule, in the order customer_name; company, 2 accounts,
\* balance within 0.01; supplier, 1 item; payment_type, party_type and
\* party.
\* the message of the first rule data fails, "" when it fails none
FirstFailing(doctype, data) ==
    LET has(k) == k \in DOMAIN data /\ data[k] # ""
        count(k) == IF k \in DOMAIN data THEN Len(data[k]) ELSE 0
        apart == CentsOf(data.accounts, "debit_in_account_currency")
                     - CentsOf(data.accounts, "credit_in_account_currency")
    IN  CASE doctype = "Customer" ->
                 IF ~has("customer_name") THEN "Mandatory field customer_name missing"
                 ELSE ""
          [] doctype = "Journal Entry" ->
                 IF ~has("company") THEN "Mandatory field company missing"
                 ELSE IF count("accounts") < 2
                 THEN "At least 2 accounts required for a Journal Entry"
                 ELSE IF apart > ToleranceCents \/ -apart > ToleranceCents
                 THEN "Debit ("
                 ELSE ""
          [] doctype = "Purchase Invoice" ->
                 IF ~has("supplier") THEN "Mandatory field supplier missing"
                 ELSE IF count("items") < 1
                 THEN "At least 1 item required for Purchase Invoice"
                 ELSE ""
          [] doctype = "Payment Entry" ->
                 IF ~has("payment_type") THEN "Mandatory field payment_type missing"
                 ELSE IF ~has("party_type") \/ ~has("party")
                 THEN "Mandatory fields party_type and party missing"
                 ELSE ""

\* the answer of the step that served the create of data
Verdict(doctype, data) ==
    LET failing == FirstFailing(doctype, data)
    IN  IF failing = "" THEN response'.status = 201
        ELSE /\ response'.status = 400
             /\ response'.body.exc_type = "ValidationError"
             /\ StartsWith(response'.body.exc, failing)

FirstFailingRule ==
    [][/\ \A data \in RuleBodies("Customer") :
             CreateCustomer(GoodHeader, data, "none") => Verdict("Customer", data)
       /\ \A data \in RuleBodies("Journal Entry") :
             CreateJournalEntry(GoodHeader, data, "none")
                 => Verdict("Journal Entry", data)
       /\ \A data \in RuleBodies("Purchase Invoice") :
             CreatePurchaseInvoice(GoodHeader, data, "none")
                 => Verdict("Purchase Invoice", data)
       /\ \A data \in RuleBodies("Payment Entry") :
             CreatePaymentEntry(GoodHeader, data, "none")
                 => Verdict("Payment Entry", data)]_vars

\* C14: an authenticated GET of {doctype}/{name} is answered 404
\* DoesNotExistError whenever no record is stored under that doctype and
\* name, and an authenticated GET of a doctype that is not one of the four,
\* by name or as a list, is answered 404.
MissingIsNotFound ==
    [][/\ \A target \in Targets :
             (/\ \/ get_document(Store, target[1], target[2], SessionLocal) = <<>>
                 \/ target[1] \notin Doctypes
              /\ GetResource(GoodHeader, target[1], target[2], "none"))
                 => /\ response'.status = 404
                    /\ response'.body.exc_type = "DoesNotExistError"
       /\ \A doctype \in ListDoctypes \ Doctypes, args \in ListArgs :
             GetResources(GoodHeader, doctype, args, "none")
                 => response'.status = 404]_vars

\* C15: after any creates, updates and deletes, a list of a doctype
\* returns the records now stored, in the order they were inserted, from
\* position limit_start on and at most limit_page_length of them (0 and 20
\* when the query string has none).
\* the names of a doctype that are stored, in the order they were issued
Inserted(doctype) ==
    SelectSeq(IssuedFor(doctype),
              LAMBDA name : Len(get_document(Store, doctype, name, SessionLocal)) = 1)

\* the page of seq that starts after offset elements and has limit at most
Page(seq, offset, limit) ==
    LET last == IF offset + limit > Len(seq) THEN Len(seq) ELSE offset + limit
    IN  [i \in 1..(IF last > offset THEN last - offset ELSE 0) |-> seq[offset + i]]

Windows ==
    {[args |-> EmptyDict, offset |-> DefaultLimitStart, limit |-> DefaultPageLength],
     [args |-> [limit_start |-> "1"], offset |-> 1, limit |-> DefaultPageLength],
     [args |-> [limit_page_length |-> "1"], offset |-> DefaultLimitStart, limit |-> 1],
     [args |-> [limit_start |-> "1", limit_page_length |-> "1"],
      offset |-> 1, limit |-> 1]}

ListedInInsertionOrder ==
    \A doctype \in Doctypes, w \in Windows :
        \A o \in get_resources(Store, session, GoodHeader, doctype, w.args,
                               SessionLocal, "none") :
            LET names == Page(Inserted(doctype), w.offset, w.limit)
            IN  o.resp = Data(200, JsonArray(
                    [i \in 1..Len(names) |->
                        get_document(Store, doctype, names[i], SessionLocal)[1]]))

\* C16: a create answered 401 or 400 leaves every counter and every stored
\* record as they were; so in a sequential run the numbers of the records
\* created for a doctype are 1, 2, 3, ... with no gap; and a create of one
\* doctype changes neither the counter nor the records of another.
CreateFrame ==
    \A before \in {[d \in Doctypes |->
                       [counter |-> CounterOf(Store, d, SessionLocal),
                        stored  |-> Stored(Store, d, SessionLocal)]]} :
      \A doctype \in Doctypes, hdr \in Headers, fault \in CreateFaults :
        \A data \in GapBodies(doctype) :
          \A o \in create_view(Store, session, doctype, hdr, data, SessionLocal,
                               now, fault) :
              /\ o.resp.status \in {400, 401} => o.st = Store /\ o.names = <<>>
              /\ \A other \in Doctypes \ {doctype} :
                    /\ CounterOf(o.st, other, SessionLocal) = before[other].counter
                    /\ Stored(o.st, other, SessionLocal) = before[other].stored

\* the numbers of the records created for a doctype, deleted ones included
CreatedNumbers(doctype) ==
    {sequence_number(name) :
        name \in {n \in DOMAIN born : born[n].doctype = doctype}}

NoGapsAmongCreated ==
    /\ CreateFrame
    /\ \A doctype \in Doctypes :
          CreatedNumbers(doctype) = 1..Cardinality(CreatedNumbers(doctype))

\* C16 as amended: the numbers drawn for a doctype are 1, 2, 3, ... in
\* order and the counter is the next one; every created record carries one
\* of them, and a number no record carries was drawn by a create that
\* ended 500 after its name was generated.
NumbersDrawnInOrder ==
    /\ CreateFrame
    /\ \A doctype \in Doctypes :
          LET names == IssuedFor(doctype)
          IN  /\ \A i \in 1..Len(names) : sequence_number(names[i]) = i
              /\ CounterOf(Store, doctype, SessionLocal) = Len(names) + 1
              /\ CreatedNumbers(doctype) \subseteq 1..Len(names)
              /\ \A n \in DOMAIN born :
                    born[n].doctype = doctype => \E i \in 1..Len(names) : names[i] = n

\* a create was rejected after a failed save had consumed number 1: the
\* counter is still 2 and no record exists
RejectedAfterConsumed ==
    /\ response.status = 400
    /\ IssuedFor("Customer") = <<"CUST-00001">>
    /\ CounterOf(Store, "Customer", SessionLocal) = 2
    /\ DOMAIN born = {}

\* C17: when two PUTs that set disjoint fields of one record have both
\* been answered 200, however their read, merge and write steps were
\* interleaved, the stored record has the field values of both.
NoLostUpdate ==
    \A t1, t2 \in Threads :
        (/\ t1 # t2
         /\ threads[t1].pc = "done" /\ threads[t1].resp.status = 200
         /\ threads[t2].pc = "done" /\ threads[t2].resp.status = 200
         /\ threads[t1].doctype = threads[t2].doctype
         /\ threads[t1].doc_name = threads[t2].doc_name)
            => LET found == get_document(Store, threads[t1].doctype,
                                         threads[t1].doc_name, SessionLocal)
               IN  /\ Len(found) = 1
                   /\ \A th \in {t1, t2} :
                         \A k \in DOMAIN threads[th].data :
                             found[1][k] = threads[th].data[k]

====
